---- MODULE Spec2Model ----
(***************************************************************************)
(* A model of rclean (cargo-rclean): the discovery of Cargo projects       *)
(* (src/src/project.rs, repeated in src/src/main.rs), the parallel clean   *)
(* of main (src/src/main.rs) and the dependency cleaner (src/src/deps.rs). *)
(*                                                                         *)
(* Text is modelled as it is: a name is a sequence of characters, a path a *)
(* sequence of names, so that starts_with, contains, glob matching and the *)
(* ordering of paths are computed, not assumed.                            *)
(***************************************************************************)
EXTENDS Integers, Sequences, FiniteSets, TLC

VARIABLES
    \* ---- find_cargo_projects: its arguments and the file system it reads
    root,              \* the (canonical) directory the walk starts from
    exclude_patterns,  \* the list of glob patterns
    manifests,         \* the directories that hold a Cargo.toml
    metadata,          \* what `cargo metadata` answers for each manifest
    \* ---- find_cargo_projects: its locals
    pc,                \* "start", "walk", "done" (Ok) or "error" (Err)
    stack,             \* the directories WalkDir has open, outermost first
    yielded,           \* the entries WalkDir has already produced
    projects,          \* the Vec<Project>
    seen_workspaces,   \* the HashSet of workspace roots
    climbs,            \* history: for each candidate, what the climb did
    \* ---- main and clean_project: the arguments, the artifact directories
    dry_run,           \* args.dry_run
    target,            \* per project: its target directory on disk
    target0,           \* history: target as it was when the run began
    \* ---- main and clean_project: one task per project
    cpc,               \* per task: "idle", "run", "finish" or "done"
    before,            \* per task: freed_bytes as measured at the start
    cleanout,          \* per task: how `cargo clean` ended
    ret,               \* per task: what the closure of par_iter().map returned
    finished,          \* history: the tasks in the order they completed
    mpc,               \* main: "fanout", "done" or "error"
    summary,           \* the Summary main builds
    procs,             \* history: every process the program tried to launch
    \* ---- clean_dependencies
    remove,            \* the `remove` argument
    manifest,          \* the package's Cargo.toml
    sources,           \* the package's source files
    dpc,               \* "idle", "probe", "loop", "done" (Ok) or "error" (Err)
    unused,            \* unused_deps
    di,                \* the index of the loop over unused_deps
    removed,           \* the counter `removed`
    errors,            \* the Vec `errors`
    report             \* the DependencyCleanResult returned

dvars == <<root, exclude_patterns, manifests, metadata, pc, stack, yielded,
           seen_workspaces, climbs>>
cvars == <<dry_run, target, target0, cpc, before, cleanout, ret, finished,
           mpc, summary, procs>>
pvars == <<remove, manifest, sources, dpc, unused, di, removed, errors, report>>

(***************************************************************************)
(* Bounds of the model.                                                    *)
(***************************************************************************)
MaxManifests == 4

(***************************************************************************)
(* Characters, names and paths.                                            *)
(***************************************************************************)
Range(s) == {s[i] : i \in DOMAIN s}

MinOf(S) == CHOOSE x \in S : \A y \in S : x <= y

\* The byte value of the characters the model uses (the order of u8).
CharCode ==
    [c \in {"*", "-", ".", "/", "?"} |->
        CASE c = "*" -> 42 [] c = "-" -> 45 [] c = "." -> 46
          [] c = "/" -> 47 [] c = "?" -> 63]
    @@ [c \in {"C", "_"} |-> IF c = "C" THEN 67 ELSE 95]
    @@ [c \in {"a", "b", "g", "h", "l", "m", "o", "r", "s", "t", "w"} |->
        CASE c = "a" -> 97 [] c = "b" -> 98 [] c = "g" -> 103 [] c = "h" -> 104
          [] c = "l" -> 108 [] c = "m" -> 109 [] c = "o" -> 111
          [] c = "r" -> 114 [] c = "s" -> 115 [] c = "t" -> 116
          [] c = "w" -> 119]

nR == <<"r">>
nW == <<"w">>
nA == <<"a">>
nB == <<"b">>
nS == <<"s">>
nH == <<".", "h">>
Dot == <<".">>
DotDot == <<".", ".">>
CargoToml == <<"C", "a", "r", "g", "o", ".", "t", "o", "m", "l">>

\* The directories that may hold a manifest, and the roots a walk may be given.
ManifestSites ==
    { <<nR>>, <<nR, nW>>, <<nR, nW, nA>>, <<nR, nW, nB>>, <<nR, nS>>,
      <<nR, nH>>, <<nH>> }
Roots == { <<nR>>, <<nR, nW>>, <<nH>> }
ExcludeChoices == { <<>>, << <<"a">> >>, << <<"w">> >> }

IsPrefix(p, q) == Len(p) <= Len(q) /\ SubSeq(q, 1, Len(p)) = p
IsStrictAncestor(a, d) == Len(a) < Len(d) /\ IsPrefix(a, d)
Prefixes(p) == {SubSeq(p, 1, k) : k \in 0..Len(p)}

\* The directories of the file system: those on the way to a manifest or to
\* the root.
Dirs == UNION {Prefixes(d) : d \in manifests \cup {root}}
ChildDirs(d) == {c \in Dirs : Len(c) = Len(d) + 1 /\ IsPrefix(d, c)}

\* Path::file_name of a non-empty path.
file_name(p) == p[Len(p)]

\* str::starts_with('.')
starts_with_dot(name) == Len(name) > 0 /\ name[1] = "."

\* Ord of two strings (byte-wise) and of two paths (component-wise).
NameLess(a, b) ==
    LET n == IF Len(a) < Len(b) THEN Len(a) ELSE Len(b)
        diff == {i \in 1..n : a[i] # b[i]}
    IN  IF diff = {} THEN Len(a) < Len(b)
        ELSE CharCode[a[MinOf(diff)]] < CharCode[b[MinOf(diff)]]

PathLess(p, q) ==
    LET n == IF Len(p) < Len(q) THEN Len(p) ELSE Len(q)
        diff == {i \in 1..n : p[i] # q[i]}
    IN  IF diff = {} THEN Len(p) < Len(q)
        ELSE NameLess(p[MinOf(diff)], q[MinOf(diff)])

\* Path::to_string_lossy of a relative path: its components joined by '/'.
RECURSIVE JoinPath(_)
JoinPath(comps) ==
    IF comps = <<>> THEN <<>>
    ELSE IF Len(comps) = 1 THEN comps[1]
    ELSE comps[1] \o <<"/">> \o JoinPath(Tail(comps))

\* e.path().strip_prefix(root) as a string.
RelString(path) == JoinPath(SubSeq(path, Len(root) + 1, Len(path)))

\* glob::Pattern::matches with the default options: '*' is any run of
\* characters ('/' included), '?' any one character.
RECURSIVE GlobMatches(_, _)
GlobMatches(p, s) ==
    IF p = <<>> THEN s = <<>>
    ELSE IF Head(p) = "*"
         THEN GlobMatches(Tail(p), s) \/ (s # <<>> /\ GlobMatches(p, Tail(s)))
    ELSE IF Head(p) = "?"
         THEN s # <<>> /\ GlobMatches(Tail(p), Tail(s))
    ELSE s # <<>> /\ Head(s) = Head(p) /\ GlobMatches(Tail(p), Tail(s))

\* The closure given to filter_entry: TRUE keeps the entry.
FilterEntry(path) ==
    LET name == file_name(path)
    IN  /\ ~(starts_with_dot(name) /\ name # Dot /\ name # DotDot)
        /\ \A i \in DOMAIN exclude_patterns :
              ~GlobMatches(exclude_patterns[i], RelString(path))

(***************************************************************************)
(* find_cargo_projects (src/src/project.rs:14-93; main.rs:97-176 repeats   *)
(* it word for word).                                                      *)
(***************************************************************************)

\* The answer of MetadataCommand::exec for the manifest of directory d.
MetadataOk(d) == metadata[d].ok
WorkspaceRootOf(d) == metadata[d].workspace_root

\* The climb without its `break`: the farthest matching ancestor wins.
RECURSIVE ClimbFromNoBreak(_, _, _)
ClimbFromNoBreak(D, k, queried) ==
    IF k < 0 THEN [found |-> FALSE, at |-> <<>>, queried |-> queried]
    ELSE LET parent == SubSeq(D, 1, k)
             rest == ClimbFromNoBreak(D, k - 1,
                        IF parent \in manifests THEN Append(queried, parent)
                        ELSE queried)
         IN  IF /\ parent \in manifests
                /\ MetadataOk(parent) /\ WorkspaceRootOf(parent) = parent
                /\ ~rest.found
             THEN [found |-> TRUE, at |-> parent, queried |-> rest.queried]
             ELSE rest

\* The `while let Some(parent) = current` loop for the candidate in directory
\* D, from the ancestor of length k outwards; queried lists the ancestors whose
\* manifest was handed to `cargo metadata` so far.
RECURSIVE ClimbFrom(_, _, _)
ClimbFrom(D, k, queried) ==
    IF k < 0 THEN [found |-> FALSE, at |-> <<>>, queried |-> queried]
    ELSE LET parent == SubSeq(D, 1, k)
         IN  IF parent \in manifests
             THEN IF MetadataOk(parent) /\ WorkspaceRootOf(parent) = parent
                  THEN [found |-> TRUE, at |-> parent,
                        queried |-> Append(queried, parent)]
                  ELSE ClimbFrom(D, k - 1, Append(queried, parent))
             ELSE ClimbFrom(D, k - 1, queried)

\* current = project_dir.parent(): the climb starts above the project.
Climb(D) == ClimbFrom(D, Len(D) - 1, <<>>)

\* slice::sort_by_key on the path: a stable sort.
InsertByPath(s, e) ==
    LET after == {i \in 1..Len(s) : PathLess(e.path, s[i].path)}
        at == IF after = {} THEN Len(s) + 1 ELSE MinOf(after)
    IN  SubSeq(s, 1, at - 1) \o <<e>> \o SubSeq(s, at, Len(s))

RECURSIVE SortByPath(_)
SortByPath(s) ==
    IF s = <<>> THEN <<>>
    ELSE InsertByPath(SortByPath(SubSeq(s, 1, Len(s) - 1)), s[Len(s)])

\* Vec::dedup_by_key on the path: of a run of equal paths the first is kept.
RECURSIVE DedupByPath(_)
DedupByPath(s) ==
    IF Len(s) <= 1 THEN s
    ELSE LET d == DedupByPath(SubSeq(s, 1, Len(s) - 1))
         IN  IF d[Len(d)].path = s[Len(s)].path THEN d
             ELSE Append(d, s[Len(s)])

\* Lines 88-90.
SortDedup(s) == DedupByPath(SortByPath(s))

\* The body of `if entry.file_name() == "Cargo.toml"` for the manifest of
\* directory D: the projects and seen_workspaces it leaves.
PushProject(ps, seen, D) ==
    LET c == Climb(D)
    IN  IF c.found
        THEN [projects |-> IF c.at \in seen THEN ps
                           ELSE Append(ps, [path |-> c.at, is_workspace |-> TRUE]),
              seen |-> seen \cup {c.at}]
        ELSE [projects |-> Append(ps, [path |-> D, is_workspace |-> FALSE]),
              seen |-> seen]

ManifestEntry(d) == Append(d, CargoToml)

\* WalkDir yields the root first; filter_entry's closure sees it like any entry.
WalkRoot ==
    /\ pc = "start"
    /\ pc' = "walk"
    /\ yielded' = {root}
    /\ stack' = IF FilterEntry(root) THEN <<root>> ELSE <<>>
    /\ UNCHANGED <<root, exclude_patterns, manifests, metadata, projects,
                   seen_workspaces, climbs>>
    /\ UNCHANGED <<cvars, pvars>>

\* The next entry of the open directory is the subdirectory c.
WalkDirEntry(c) ==
    /\ pc = "walk"
    /\ stack # <<>>
    /\ c \in ChildDirs(stack[Len(stack)]) \ yielded
    /\ yielded' = yielded \cup {c}
    /\ stack' = IF FilterEntry(c) THEN Append(stack, c) ELSE stack
    /\ UNCHANGED <<root, exclude_patterns, manifests, metadata, pc, projects,
                   seen_workspaces, climbs>>
    /\ UNCHANGED <<cvars, pvars>>

\* The next entry of the open directory is its Cargo.toml.
WalkManifest ==
    /\ pc = "walk"
    /\ stack # <<>>
    /\ LET D == stack[Len(stack)]
           r == PushProject(projects, seen_workspaces, D)
       IN  /\ D \in manifests
           /\ ManifestEntry(D) \notin yielded
           /\ yielded' = yielded \cup {ManifestEntry(D)}
           /\ IF FilterEntry(ManifestEntry(D))
              THEN /\ projects' = r.projects
                   /\ seen_workspaces' = r.seen
                   /\ climbs' = [d \in DOMAIN climbs \cup {D} |->
                                   IF d = D THEN Climb(D) ELSE climbs[d]]
              ELSE UNCHANGED <<projects, seen_workspaces, climbs>>
    /\ UNCHANGED <<root, exclude_patterns, manifests, metadata, pc, stack>>
    /\ UNCHANGED <<cvars, pvars>>

\* The open directory has no entry left.
WalkLeave ==
    /\ pc = "walk"
    /\ stack # <<>>
    /\ LET D == stack[Len(stack)]
       IN  /\ ChildDirs(D) \subseteq yielded
           /\ D \in manifests => ManifestEntry(D) \in yielded
    /\ stack' = SubSeq(stack, 1, Len(stack) - 1)
    /\ UNCHANGED <<root, exclude_patterns, manifests, metadata, pc, yielded,
                   projects, seen_workspaces, climbs>>
    /\ UNCHANGED <<cvars, pvars>>

\* `let entry = entry?`: a directory that cannot be read ends the function
\* with Err.
WalkIoError ==
    /\ pc = "walk"
    /\ stack # <<>>
    /\ \E c \in ChildDirs(stack[Len(stack)]) \ yielded : FilterEntry(c)
    /\ pc' = "error"
    /\ UNCHANGED <<root, exclude_patterns, manifests, metadata, stack, yielded,
                   projects, seen_workspaces, climbs>>
    /\ UNCHANGED <<cvars, pvars>>

\* The walk is over: sort, dedup, Ok(projects).
Finish ==
    /\ pc = "walk"
    /\ stack = <<>>
    /\ pc' = "done"
    /\ projects' = SortDedup(projects)
    /\ UNCHANGED <<root, exclude_patterns, manifests, metadata, stack, yielded,
                   seen_workspaces, climbs>>
    /\ UNCHANGED <<cvars, pvars>>

\* The paths of a set in ascending order: the walk that reads every directory
\* in sorted order, the manifest first.
RECURSIVE SortedPaths(_)
SortedPaths(S) ==
    IF S = {} THEN <<>>
    ELSE LET least == CHOOSE x \in S : \A y \in S : y = x \/ PathLess(x, y)
         IN  <<least>> \o SortedPaths(S \ {least})

\* What `cargo metadata` may answer for the manifests of a tree: an error, or
\* the root of the workspace the package belongs to, which is the package's own
\* directory or an enclosing directory whose manifest names itself as root.
MetadataAnswers(M) ==
    {[ok |-> FALSE, workspace_root |-> <<>>]}
        \cup {[ok |-> TRUE, workspace_root |-> d] : d \in M}

ConsistentMetadata(M, f) ==
    \A d \in M :
        f[d].ok =>
            /\ IsPrefix(f[d].workspace_root, d)
            /\ f[f[d].workspace_root] = [ok |-> TRUE,
                                         workspace_root |-> f[d].workspace_root]

(***************************************************************************)
(* clean_project and the fan-out of main (src/src/main.rs:178-239,         *)
(* 304-405).  A task is one call of the closure given to par_iter().map;   *)
(* rayon runs the tasks in any interleaving.  A task blocks in             *)
(* Command::output while `cargo clean` runs, so it is three steps: up to   *)
(* the launch, the external cleaner, and the rest.                         *)
(***************************************************************************)
Tasks == DOMAIN projects

Absent == [exists |-> FALSE, size |-> 0, readable |-> TRUE]

\* get_directory_size(&target_dir).unwrap_or(0) under `if target_dir.exists()`:
\* a directory that cannot be walked counts as 0.
MeasuredSize(t) == IF t.exists /\ t.readable THEN t.size ELSE 0

\* u64::saturating_sub
saturating_sub(a, b) == IF a >= b THEN a - b ELSE 0

CleanResult(path, success, freed_bytes, error) ==
    [path |-> path, success |-> success, freed_bytes |-> freed_bytes,
     error |-> error]

NoError == "None"
Ok(v) == [kind |-> "Ok", value |-> v]
Err(e) == [kind |-> "Err", value |-> e]
Pending == [kind |-> "Pending", value |-> NoError]

\* The closure without its Err arm: an Err of clean_project reaches collect.
MapResultPropagates(path, result) == result

\* The closure's `match result`: an Err of clean_project becomes a failed
\* CleanResult, so the closure always returns Ok.
MapResult(path, result) ==
    IF result.kind = "Ok" THEN result
    ELSE Ok(CleanResult(path, FALSE, 0, result.value))

\* `if dry_run { return Ok(..) }`: TRUE when clean_project stops before it
\* launches the cleaner.
ReturnsBeforeCleaning(dry) == dry

\* What the external cleaner may leave of a target directory when it exits
\* with success: nothing, or the directory with some or all of its bytes.
Leftovers(t) ==
    IF t.exists THEN {Absent} \cup {[t EXCEPT !.size = n] : n \in 0..t.size}
    ELSE {t}

\* Lines 179-193: measure; a dry run returns here.
CleanProjectStart(p) ==
    /\ mpc = "fanout"
    /\ cpc[p] = "idle"
    /\ before' = [before EXCEPT ![p] = MeasuredSize(target[p])]
    /\ IF ReturnsBeforeCleaning(dry_run)
       THEN /\ cpc' = [cpc EXCEPT ![p] = "done"]
            /\ ret' = [ret EXCEPT ![p] =
                         MapResult(projects[p].path,
                            Ok(CleanResult(projects[p].path, TRUE,
                                           MeasuredSize(target[p]), NoError)))]
            /\ finished' = Append(finished, p)
       ELSE /\ cpc' = [cpc EXCEPT ![p] = "run"]
            /\ UNCHANGED <<ret, finished>>
    /\ UNCHANGED <<dry_run, target, target0, cleanout, mpc, summary, procs>>
    /\ UNCHANGED <<dvars, projects, pvars>>

\* Lines 196-199: Command::new("cargo").arg("clean").output().
CargoClean(p) ==
    /\ mpc = "fanout"
    /\ cpc[p] = "run"
    /\ \E outcome \in {"launch_error", "exit_failure", "success"} :
          /\ cleanout' = [cleanout EXCEPT ![p] = outcome]
          /\ procs' = Append(procs, [cmd |-> "cargo clean", arg |-> <<>>,
                                     outcome |-> outcome])
          /\ \E t \in (IF outcome = "success" THEN Leftovers(target[p])
                       ELSE {target[p]}) :
                target' = [target EXCEPT ![p] = t]
    /\ cpc' = [cpc EXCEPT ![p] = "finish"]
    /\ UNCHANGED <<dry_run, target0, before, ret, finished, mpc, summary>>
    /\ UNCHANGED <<dvars, projects, pvars>>

\* Lines 201-238: the two arms of `match output`, then the closure's match.
CleanProjectEnd(p) ==
    /\ mpc = "fanout"
    /\ cpc[p] = "finish"
    /\ \E remove_dir_all \in {"ok", "failed"} :
          LET path == projects[p].path
              result ==
                  IF cleanout[p] = "success"
                  THEN Ok(CleanResult(path, TRUE,
                            saturating_sub(before[p], MeasuredSize(target[p])),
                            NoError))
                  ELSE IF target[p].exists
                       THEN IF remove_dir_all = "ok"
                            THEN Ok(CleanResult(path, TRUE, before[p], NoError))
                            ELSE Err("Failed to remove target directory")
                       ELSE Ok(CleanResult(path, TRUE, 0, NoError))
              deletes == /\ cleanout[p] # "success"
                         /\ target[p].exists
                         /\ remove_dir_all = "ok"
          IN  /\ (remove_dir_all = "failed") =>
                    (cleanout[p] # "success" /\ target[p].exists)
              /\ ret' = [ret EXCEPT ![p] = MapResult(path, result)]
              /\ target' = IF deletes THEN [target EXCEPT ![p] = Absent]
                           ELSE target
    /\ cpc' = [cpc EXCEPT ![p] = "done"]
    /\ finished' = Append(finished, p)
    /\ UNCHANGED <<dry_run, target0, before, cleanout, mpc, summary, procs>>
    /\ UNCHANGED <<dvars, projects, pvars>>

\* Iterator::sum and filter().count() over the results.
RECURSIVE SumFreed(_)
SumFreed(rs) ==
    IF rs = <<>> THEN 0 ELSE rs[1].freed_bytes + SumFreed(Tail(rs))

CountSuccess(rs) == Cardinality({i \in DOMAIN rs : rs[i].success})

NoSummary ==
    [total_projects |-> 0, cleaned |-> 0, failed |-> 0, total_freed_bytes |-> 0,
     results |-> <<>>, printed |-> FALSE]

\* Lines 268-273: nothing was found, main returns before the fan-out.
MainNoProjects ==
    /\ mpc = "fanout"
    /\ projects = <<>>
    /\ mpc' = "done"
    /\ UNCHANGED <<dry_run, target, target0, cpc, before, cleanout, ret,
                   finished, summary, procs>>
    /\ UNCHANGED <<dvars, projects, pvars>>

\* Lines 389-405: collect::<Result<Vec<_>>>()? and the Summary.  collect
\* keeps the order of the projects; an Err among the items would end main.
MainCollect ==
    /\ mpc = "fanout"
    /\ projects # <<>>
    /\ \A p \in Tasks : cpc[p] = "done"
    /\ IF \E p \in Tasks : ret[p].kind = "Err"
       THEN /\ mpc' = "error"
            /\ UNCHANGED summary
       ELSE LET results == [p \in Tasks |-> ret[p].value]
                cleaned == CountSuccess(results)
            IN  /\ mpc' = "done"
                /\ summary' = [total_projects |-> Len(projects),
                               cleaned |-> cleaned,
                               failed |-> Len(results) - cleaned,
                               total_freed_bytes |-> SumFreed(results),
                               results |-> results,
                               printed |-> TRUE]
    /\ UNCHANGED <<dry_run, target, target0, cpc, before, cleanout, ret,
                   finished, procs>>
    /\ UNCHANGED <<dvars, projects, pvars>>

(***************************************************************************)
(* The dependency cleaner (src/src/deps.rs).                               *)
(*                                                                         *)
(* A manifest is its three tables, each the names in the order the parsed  *)
(* table iterates, and the text of its other sections; a source directory  *)
(* is the set of its files.  The package is projects[1].                   *)
(***************************************************************************)
MaxDeps == 2

sX == <<"x">>
sXY == <<"x", "-", "y">>
sSyn == <<"s", "y", "n">>
sZ == <<"z">>
sQDerive == <<"q", "-", "d", "e", "r", "i", "v", "e">>
DepNames == {sX, sXY, sSyn, sZ}

\* str::contains, str::ends_with
contains(h, n) ==
    \E i \in 0..(Len(h) - Len(n)) : SubSeq(h, i + 1, i + Len(n)) = n
ends_with(s, suffix) ==
    Len(suffix) <= Len(s)
    /\ SubSeq(s, Len(s) - Len(suffix) + 1, Len(s)) = suffix

\* normalize_crate_name: name.replace('-', "_")
normalize_crate_name(name) ==
    [i \in DOMAIN name |-> IF name[i] = "-" THEN "_" ELSE name[i]]

\* The patterns is_dependency_used builds (lines 69-82).
search_patterns(dep_name) ==
    LET n == normalize_crate_name(dep_name)
    IN  << <<"u", "s", "e", " ">> \o n \o <<":", ":">>,
           <<"u", "s", "e", " ">> \o n \o <<";">>,
           <<"u", "s", "e", " ", "c", "r", "a", "t", "e", ":", ":">> \o n,
           n \o <<":", ":">>,
           <<"e", "x", "t", "e", "r", "n", " ", "c", "r", "a", "t", "e", " ">> \o n,
           n \o <<"!">>,
           <<"#", "[">> \o n >>

\* search_in_directory: some readable .rs file holds some pattern.
search_in_directory(dir, patterns) ==
    \E f \in dir.files :
        /\ f.rs
        /\ f.utf8
        /\ \E i \in DOMAIN patterns : contains(f.content, patterns[i])

RECURSIVE Concat(_)
Concat(ss) == IF ss = <<>> THEN <<>> ELSE Head(ss) \o Concat(Tail(ss))

\* The text of a manifest whose parse is the three tables: a header and a
\* `name=` line per entry, then the other sections.
TableText(header, names) ==
    IF names = <<>> THEN <<>>
    ELSE header \o Concat([i \in DOMAIN names |-> names[i] \o <<"=", "\n">>])

hDependencies == <<"[", "d", "e", "p", "e", "n", "d", "e", "n", "c", "i", "e", "s", "]", "\n">>
hDevDependencies == <<"[", "d", "e", "v", "-", "d", "e", "p", "e", "n", "d", "e", "n", "c", "i", "e", "s", "]", "\n">>
hBuildDependencies == <<"[", "b", "u", "i", "l", "d", "-", "d", "e", "p", "e", "n", "d", "e", "n", "c", "i", "e", "s", "]", "\n">>

ManifestText(m) ==
    TableText(hDependencies, m.dependencies)
        \o TableText(hDevDependencies, m.dev_dependencies)
        \o TableText(hBuildDependencies, m.build_dependencies)
        \o m.extra

\* is_dependency_used (lines 67-143) for the package of the model.
is_dependency_used(dep_name) ==
    LET pats == search_patterns(dep_name)
        normalized == normalize_crate_name(dep_name)
        content == ManifestText(manifest)
    IN  \/ (sources.src.exists /\ search_in_directory(sources.src, pats))
        \/ (sources.examples.exists /\ search_in_directory(sources.examples, pats))
        \/ (sources.tests.exists /\ search_in_directory(sources.tests, pats))
        \/ /\ sources.build_rs.exists
           /\ sources.build_rs.utf8
           /\ \E i \in DOMAIN pats : contains(sources.build_rs.content, pats[i])
        \/ /\ manifest.state = "ok"
           /\ \/ contains(content, dep_name \o <<"/">>)
              \/ contains(content, dep_name \o <<"-">>)
              \/ contains(content, normalized \o <<"/">>)
              \/ contains(content, normalized \o <<"-">>)
        \/ contains(dep_name, <<"p", "r", "o", "c", "-", "m", "a", "c", "r", "o">>)
        \/ contains(dep_name, <<"d", "e", "r", "i", "v", "e">>)

\* extract_dependencies (lines 26-59): the three tables, in this order.
extract_dependencies(m) ==
    [i \in DOMAIN m.dependencies |->
        [name |-> m.dependencies[i], location |-> "[dependencies]"]]
    \o [i \in DOMAIN m.dev_dependencies |->
        [name |-> m.dev_dependencies[i], location |-> "[dev-dependencies]"]]
    \o [i \in DOMAIN m.build_dependencies |->
        [name |-> m.build_dependencies[i], location |-> "[build-dependencies]"]]

skip_list ==
    { <<"p", "r", "o", "c", "-", "m", "a", "c", "r", "o", "2">>,
      <<"q", "u", "o", "t", "e">>, sSyn, <<"s", "e", "r", "d", "e">>,
      <<"s", "e", "r", "d", "e", "_", "d", "e", "r", "i", "v", "e">>,
      <<"s", "e", "r", "d", "e", "_", "j", "s", "o", "n">> }

\* Lines 190-194 without the look-up in skip_list.
SkippedBySuffixOnly(dep_name) ==
    \/ ends_with(dep_name, <<"_", "d", "e", "r", "i", "v", "e">>)
    \/ contains(dep_name, <<"p", "r", "o", "c", "-", "m", "a", "c", "r", "o">>)

\* The `continue` of lines 190-194.
Skipped(dep_name) ==
    \/ dep_name \in skip_list
    \/ ends_with(dep_name, <<"_", "d", "e", "r", "i", "v", "e">>)
    \/ contains(dep_name, <<"p", "r", "o", "c", "-", "m", "a", "c", "r", "o">>)

\* The loop of check_unused_dependencies (lines 177-202).
UnusedOf(all_deps) ==
    SelectSeq(all_deps,
              LAMBDA d : ~Skipped(d.name) /\ ~is_dependency_used(d.name))

\* check_unused_dependencies (lines 168-205): Ok(list) or Err.
check_unused_dependencies ==
    IF manifest.state = "missing" THEN Ok(<<>>)
    ELSE IF manifest.state \in {"unreadable", "malformed"}
         THEN Err("Failed to check unused dependencies")
    ELSE Ok(UnusedOf(extract_dependencies(manifest)))

\* Line 214 without its dry_run test.
SkipsRemovalIgnoringDryRun(dry, unused_deps) == unused_deps = <<>>

\* Line 214: `if dry_run || unused_deps.is_empty() { return Ok(0) }`.
SkipsRemoval(dry, unused_deps) == dry \/ unused_deps = <<>>

\* Lines 223-232 looking only at whether the probe could be launched.
EditorAvailableIfLaunched(outcome) == outcome # "launch_error"

\* Lines 223-232: the editor is there when `cargo remove --help` ran and
\* exited with success.
EditorAvailable(outcome) == outcome = "success"

\* Line 238 looping over every declared dependency.
RemovalTargetsAllDeclared(unused_deps) == extract_dependencies(manifest)

\* Line 238: `for dep in unused_deps`.
RemovalTargets(unused_deps) == unused_deps

\* The loop with a `break` at the first invocation that did not succeed.
LoopStopsAtFirstFailure(outcome) == outcome = "success"

\* Line 247: `.output().with_context(..)?` leaves the function when the
\* process could not be launched; any exit status lets the loop go on.
LoopContinues(outcome) == outcome # "launch_error"

DependencyCleanResult(success, unused_deps, removed_count, error) ==
    [path |-> projects[1].path, success |-> success, unused_deps |-> unused_deps,
     removed_count |-> removed_count, error |-> error]

NoReport == [path |-> <<>>, success |-> FALSE, unused_deps |-> <<>>,
             removed_count |-> 0, error |-> NoError]

\* clean_dependencies up to its first process (lines 281-300 with 208-216).
DepsCheck ==
    /\ dpc = "idle"
    /\ \A p \in Tasks : cpc[p] = "done"
    /\ LET r == check_unused_dependencies
       IN  IF r.kind = "Err"
           THEN /\ dpc' = "error"
                /\ UNCHANGED <<unused, report>>
           ELSE /\ unused' = r.value
                /\ IF remove /\ r.value # <<>> /\ ~SkipsRemoval(dry_run, r.value)
                   THEN /\ dpc' = "probe"
                        /\ UNCHANGED report
                   ELSE /\ dpc' = "done"
                        /\ report' = DependencyCleanResult(TRUE, r.value, 0, NoError)
    /\ UNCHANGED <<remove, manifest, sources, di, removed, errors>>
    /\ UNCHANGED <<dvars, projects, cvars>>

\* Lines 219-235: `cargo remove --help`.
DepsProbe ==
    /\ dpc = "probe"
    /\ \E outcome \in {"launch_error", "exit_failure", "success"} :
          /\ procs' = Append(procs, [cmd |-> "cargo remove --help", arg |-> <<>>,
                                     outcome |-> outcome])
          /\ IF EditorAvailable(outcome)
             THEN /\ dpc' = "loop"
                  /\ UNCHANGED report
             ELSE /\ dpc' = "done"
                  /\ report' = DependencyCleanResult(FALSE, unused, 0,
                                   "cargo-remove is not installed")
    /\ di' = 1
    /\ removed' = 0
    /\ errors' = <<>>
    /\ UNCHANGED <<remove, manifest, sources, unused>>
    /\ UNCHANGED <<dvars, projects, dry_run, target, target0, cpc, before,
                   cleanout, ret, finished, mpc, summary>>

\* One turn of the loop of lines 238-262, and lines 264-271 after the last.
DepsRemove ==
    /\ dpc = "loop"
    /\ \E outcome \in {"launch_error", "exit_failure", "success"} :
          LET list == RemovalTargets(unused)
              dep == list[di]
              removed1 == IF outcome = "success" THEN removed + 1 ELSE removed
              errors1 == IF outcome = "success" THEN errors
                         ELSE Append(errors, dep.name)
          IN  /\ procs' = Append(procs, [cmd |-> "cargo remove", arg |-> dep.name,
                                         outcome |-> outcome])
              /\ IF ~LoopContinues(outcome)
                 THEN /\ dpc' = "done"
                      /\ report' = DependencyCleanResult(FALSE, unused, 0,
                                       "Failed to run cargo remove")
                      /\ UNCHANGED <<di, removed, errors>>
                 ELSE /\ removed' = removed1
                      /\ errors' = errors1
                      /\ IF di < Len(list)
                         THEN /\ di' = di + 1
                              /\ UNCHANGED <<dpc, report>>
                         ELSE /\ dpc' = "done"
                              /\ UNCHANGED di
                              /\ report' =
                                    IF errors1 # <<>> /\ removed1 = 0
                                    THEN DependencyCleanResult(FALSE, unused, 0,
                                             "Failed to remove dependencies")
                                    ELSE DependencyCleanResult(TRUE, unused,
                                             removed1, NoError)
    /\ UNCHANGED <<remove, manifest, sources, unused>>
    /\ UNCHANGED <<dvars, projects, dry_run, target, target0, cpc, before,
                   cleanout, ret, finished, mpc, summary>>

(***************************************************************************)
(* The initial states.  Each specification runs one part of the program    *)
(* and holds the variables of the other parts still.                       *)
(***************************************************************************)
MaxSize == 2
MaxProjects == 2

InitDiscovery ==
    /\ root \in Roots
    /\ exclude_patterns \in ExcludeChoices
    /\ manifests \in {M \in SUBSET ManifestSites : Cardinality(M) <= MaxManifests}
    /\ metadata \in {f \in [manifests -> MetadataAnswers(manifests)] :
                        ConsistentMetadata(manifests, f)}
    /\ pc = "start"
    /\ stack = <<>>
    /\ yielded = {}
    /\ projects = <<>>
    /\ seen_workspaces = {}
    /\ climbs = <<>>

IdleDiscovery ==
    /\ root = <<nR>>
    /\ exclude_patterns = <<>>
    /\ manifests = {}
    /\ metadata = <<>>
    /\ pc = "idle"
    /\ stack = <<>>
    /\ yielded = {}
    /\ seen_workspaces = {}
    /\ climbs = <<>>

\* A target directory: absent, present and readable with some bytes, or
\* present with a part get_directory_size cannot read.
TargetChoices ==
    {Absent}
        \cup {[exists |-> TRUE, size |-> n, readable |-> TRUE] : n \in 1..MaxSize}
        \cup {[exists |-> TRUE, size |-> MaxSize, readable |-> FALSE]}

\* The first n of the visible manifest sites in ascending order, as
\* find_cargo_projects returns them.
ProjectList(n) ==
    LET sites == {d \in ManifestSites :
                    \A k \in DOMAIN d : ~starts_with_dot(d[k])}
    IN  [i \in 1..n |-> [path |-> SortedPaths(sites)[i],
                         is_workspace |-> FALSE]]

InitClean ==
    /\ dry_run \in BOOLEAN
    /\ target \in [Tasks -> TargetChoices]
    /\ target0 = target
    /\ cpc = [p \in Tasks |-> "idle"]
    /\ before = [p \in Tasks |-> 0]
    /\ cleanout = [p \in Tasks |-> "none"]
    /\ ret = [p \in Tasks |-> Pending]
    /\ finished = <<>>
    /\ mpc = "fanout"
    /\ summary = NoSummary
    /\ procs = <<>>

IdleClean ==
    /\ dry_run = FALSE
    /\ target = <<>>
    /\ target0 = <<>>
    /\ cpc = <<>>
    /\ before = <<>>
    /\ cleanout = <<>>
    /\ ret = <<>>
    /\ finished = <<>>
    /\ mpc = "idle"
    /\ summary = NoSummary
    /\ procs = <<>>

\* The sequences of at most n distinct elements of S.
SeqsNoRep(S, n) ==
    UNION {{f \in [1..k -> S] : \A a, b \in 1..k : a # b => f[a] # f[b]} :
              k \in 0..n}

NoManifest(state) ==
    [state |-> state, dependencies |-> <<>>, dev_dependencies |-> <<>>,
     build_dependencies |-> <<>>, extra |-> <<>>]

ManifestChoices ==
    {NoManifest("missing"), NoManifest("unreadable"), NoManifest("malformed")}
    \cup {[state |-> "ok", dependencies |-> d, dev_dependencies |-> v,
           build_dependencies |-> b, extra |-> x] :
             d \in SeqsNoRep(DepNames, MaxDeps), v \in {<<>>, <<sX>>, <<sQDerive>>},
             b \in {<<>>, <<sXY>>}, x \in {<<>>, <<"x", "/", "f">>}}

NoDir == [exists |-> FALSE, files |-> {}]
NoFile == [exists |-> FALSE, utf8 |-> TRUE, content |-> <<>>]
RsFile(content) == [rs |-> TRUE, utf8 |-> TRUE, content |-> content]
DirOf(files) == [exists |-> TRUE, files |-> files]

SourceChoices ==
    { [src |-> NoDir, examples |-> NoDir, tests |-> NoDir, build_rs |-> NoFile],
      [src |-> DirOf({RsFile(<<"x", ":", ":">>)}), examples |-> NoDir, tests |-> NoDir,
       build_rs |-> NoFile],
      [src |-> DirOf({[rs |-> FALSE, utf8 |-> TRUE, content |-> <<"x", ":", ":">>]}),
       examples |-> NoDir,
       tests |-> DirOf({RsFile(<<"u", "s", "e", " ", "x", "_", "y", ";">>)}),
       build_rs |-> NoFile],
      [src |-> NoDir,
       examples |-> DirOf({[rs |-> TRUE, utf8 |-> FALSE, content |-> <<"x", ":", ":">>]}),
       tests |-> NoDir,
       build_rs |-> [exists |-> TRUE, utf8 |-> TRUE, content |-> <<"x", "_", "y", "!">>]],
      [src |-> DirOf({RsFile(<<"x", "-", "y", ":", ":">>)}), examples |-> NoDir,
       tests |-> NoDir, build_rs |-> NoFile] }

InitDeps ==
    /\ remove \in BOOLEAN
    /\ manifest \in ManifestChoices
    /\ sources \in SourceChoices
    /\ dpc = "idle"
    /\ unused = <<>>
    /\ di = 0
    /\ removed = 0
    /\ errors = <<>>
    /\ report = NoReport

IdleDeps ==
    /\ remove = FALSE
    /\ manifest = NoManifest("missing")
    /\ sources = [src |-> NoDir, examples |-> NoDir, tests |-> NoDir,
                  build_rs |-> NoFile]
    /\ dpc = "parked"
    /\ unused = <<>>
    /\ di = 0
    /\ removed = 0
    /\ errors = <<>>
    /\ report = NoReport

vars == <<dvars, projects, cvars, pvars>>

\* find_cargo_projects on a tree.
Init == InitDiscovery /\ IdleClean /\ IdleDeps

Next ==
    \/ WalkRoot
    \/ \E c \in ManifestSites \cup Roots : WalkDirEntry(c)
    \/ WalkManifest
    \/ WalkLeave
    \/ WalkIoError
    \/ Finish

Spec == Init /\ [][Next]_vars

\* main from the fan-out on, over a list of projects discovery returned.
InitMain ==
    /\ IdleDiscovery
    /\ projects \in {ProjectList(n) : n \in 0..MaxProjects}
    /\ InitClean
    /\ IdleDeps

NextMain ==
    \/ \E p \in Tasks : CleanProjectStart(p)
    \/ \E p \in Tasks : CargoClean(p)
    \/ \E p \in Tasks : CleanProjectEnd(p)
    \/ MainNoProjects
    \/ MainCollect

SpecMain == InitMain /\ [][NextMain]_vars

\* One package: clean_project, then clean_dependencies, with the same dry_run.
InitPackage ==
    /\ IdleDiscovery
    /\ projects = ProjectList(1)
    /\ InitClean
    /\ InitDeps

NextPackage ==
    \/ \E p \in Tasks : CleanProjectStart(p)
    \/ \E p \in Tasks : CargoClean(p)
    \/ \E p \in Tasks : CleanProjectEnd(p)
    \/ DepsCheck
    \/ DepsProbe
    \/ DepsRemove

SpecPackage == InitPackage /\ [][NextPackage]_vars

(***************************************************************************)
(* What the tree is, by the answers of `cargo metadata`: a package is a    *)
(* member of the workspace cargo names as its root; a workspace is a root  *)
(* with members; a standalone package is its own root and has no member.   *)
(***************************************************************************)
IsOwnRoot(d) == d \in manifests /\ MetadataOk(d) /\ WorkspaceRootOf(d) = d
Members(W) ==
    {d \in manifests : d # W /\ MetadataOk(d) /\ WorkspaceRootOf(d) = W}
IsWorkspace(W) == IsOwnRoot(W) /\ Members(W) # {}
IsStandalone(S) == IsOwnRoot(S) /\ Members(S) = {}

\* The manifests the walk handed to the resolver.
Candidates == DOMAIN climbs
EntriesAt(p) == {i \in DOMAIN projects : projects[i].path = p}

\* C1: after the full walk a workspace whose root manifest and member
\* manifests were all visited has exactly one entry, its root, and none at a
\* member's directory; every standalone package visited has exactly one entry.
\* Stated for the trees all of whose manifests lie under the root of the walk.
C1_DedupInvariant ==
    (pc = "done" /\ \A d \in manifests : IsPrefix(root, d)) =>
        /\ \A W \in manifests :
              (IsWorkspace(W) /\ W \in Candidates /\ Members(W) \subseteq Candidates)
                  => /\ Cardinality(EntriesAt(W)) = 1
                     /\ \A m \in Members(W) : EntriesAt(m) = {}
        /\ \A S \in manifests :
              (IsStandalone(S) /\ S \in Candidates)
                  => Cardinality(EntriesAt(S)) = 1

RECURSIVE PushAll(_, _, _)
PushAll(ps, seen, order) ==
    IF order = <<>> THEN ps
    ELSE LET r == PushProject(ps, seen, Head(order))
         IN  PushAll(r.projects, r.seen, Tail(order))

\* C2: the list returned (paths and is_workspace flags) is the one any other
\* order of visiting the same manifests returns; stated against the walk in
\* ascending order of path.
C2_OrderIndependent ==
    pc = "done" =>
        projects = SortDedup(PushAll(<<>>, {}, SortedPaths(Candidates)))

\* The strict ancestors of D whose manifest resolves to a workspace rooted at
\* the ancestor itself.
MatchingAncestors(D) == {A \in Prefixes(D) \ {D} : IsOwnRoot(A)}
Nearest(S) == CHOOSE a \in S : \A b \in S : Len(b) <= Len(a)

BeneathHidden(d) == \E k \in (Len(root) + 1)..Len(d) : starts_with_dot(d[k])

\* An exclude pattern matches the manifest of d or a directory on the way to it.
ExcludedByPattern(d) ==
    \E i \in DOMAIN exclude_patterns :
        \/ GlobMatches(exclude_patterns[i], RelString(ManifestEntry(d)))
        \/ \E k \in Len(root)..Len(d) :
              GlobMatches(exclude_patterns[i], RelString(SubSeq(d, 1, k)))

\* C10: hidden directories are skipped, the root excepted: no candidate lies
\* beneath a hidden directory below the root, and every manifest under the
\* root that no hidden directory and no exclude pattern hides is a candidate,
\* also when the root's own name starts with '.'.
C10_HiddenSkippedExceptRoot ==
    pc = "done" =>
        /\ \A D \in Candidates : ~BeneathHidden(D)
        /\ \A D \in manifests :
              (IsPrefix(root, D) /\ ~BeneathHidden(D) /\ ~ExcludedByPattern(D))
                  => D \in Candidates

(***************************************************************************)
(* The processes the program tried to launch, by command.                  *)
(***************************************************************************)
EditorCalls == SelectSeq(procs, LAMBDA c : c.cmd = "cargo remove")
ProbeCalls == SelectSeq(procs, LAMBDA c : c.cmd = "cargo remove --help")
ProbeFailed ==
    \E i \in DOMAIN ProbeCalls : ProbeCalls[i].outcome # "success"
ProbeSucceeded ==
    \E i \in DOMAIN ProbeCalls : ProbeCalls[i].outcome = "success"
CountCalls(calls, outcome) ==
    Cardinality({i \in DOMAIN calls : calls[i].outcome = outcome})

\* C4: removed <= unused <= declared for every report: each entry of
\* unused_deps is an entry of one of the manifest's three tables, the i-th
\* editor invocation is for the i-th unused dependency, and removed_count is
\* at most the number of invocations that succeeded and at most the length of
\* unused_deps.
C4_RemovedUnusedDeclared ==
    dpc = "done" =>
        /\ \A i \in DOMAIN report.unused_deps :
              /\ manifest.state = "ok"
              /\ report.unused_deps[i] \in Range(extract_dependencies(manifest))
        /\ Len(EditorCalls) <= Len(report.unused_deps)
        /\ \A i \in DOMAIN EditorCalls :
              EditorCalls[i].arg = report.unused_deps[i].name
        /\ report.removed_count <= CountCalls(EditorCalls, "success")
        /\ report.removed_count <= Len(report.unused_deps)

\* A report with a dependency removed, another reported unused that was not,
\* and a declared dependency that is not reported unused.
C4_Witness ==
    /\ dpc = "done"
    /\ report.removed_count >= 1
    /\ report.removed_count < Len(report.unused_deps)
    /\ Len(report.unused_deps) < Len(extract_dependencies(manifest))

\* C5 as claimed: a dry run deletes nothing and launches no process, and the
\* freed bytes clean_project reports are the ones a dry run reports on the
\* same tree, whether the run is a dry run or not.
C5_DryRunPurity ==
    /\ dry_run => (target = target0 /\ procs = <<>>)
    /\ \A p \in Tasks :
          cpc[p] = "done" =>
              /\ ret[p].kind = "Ok"
              /\ ret[p].value.freed_bytes = MeasuredSize(target0[p])

\* C5 as amended: a dry run deletes nothing and launches no process (no
\* cleaner, no editor, no probe); the freed bytes it reports are the size of
\* the target directory as a run that is not a dry run measures it before it
\* cleans, and that run reports at most this size.
C5_DryRunPurityAmended ==
    /\ dry_run => (target = target0 /\ procs = <<>>)
    /\ \A p \in Tasks :
          cpc[p] = "done" =>
              /\ ret[p].kind = "Ok"
              /\ before[p] = MeasuredSize(target0[p])
              /\ dry_run => /\ ret[p].value.success
                            /\ ret[p].value.freed_bytes = before[p]
              /\ ~dry_run => ret[p].value.freed_bytes <= before[p]

\* A dry run over a target directory with bytes in it, with removal requested
\* and unused dependencies found, has returned its report.
C5_Witness ==
    /\ dry_run
    /\ remove
    /\ dpc = "done"
    /\ unused # <<>>
    /\ \E p \in Tasks : cpc[p] = "done" /\ ret[p].value.freed_bytes > 0

\* C6 as claimed: with removal requested, no dry run and the editor available,
\* the editor is invoked exactly once for every unused dependency, in list
\* order, whatever the outcome of the earlier invocations.
C6_EveryUnusedAttempted ==
    (dpc = "done" /\ ProbeSucceeded) =>
        /\ Len(EditorCalls) = Len(unused)
        /\ \A i \in DOMAIN EditorCalls : EditorCalls[i].arg = unused[i].name

\* C6 as amended: the editor is invoked once per unused dependency, in list
\* order, whatever the exit status of the earlier invocations; an invocation
\* that cannot be launched is the last one; and every invocation that was
\* launched is counted once, in removed or in errors.
C6_EveryUnusedAttemptedAmended ==
    ProbeSucceeded =>
        /\ remove /\ ~dry_run
        /\ Len(EditorCalls) <= Len(unused)
        /\ \A i \in DOMAIN EditorCalls : EditorCalls[i].arg = unused[i].name
        /\ \A i \in DOMAIN EditorCalls :
              EditorCalls[i].outcome = "launch_error" =>
                  (i = Len(EditorCalls) /\ dpc = "done")
        /\ removed = CountCalls(EditorCalls, "success")
        /\ Len(errors) = CountCalls(EditorCalls, "exit_failure")
        /\ (dpc = "done" /\ CountCalls(EditorCalls, "launch_error") = 0)
              => Len(EditorCalls) = Len(unused)

\* The first invocation exited with a failure, the second succeeded, and the
\* whole list was attempted.
C6_Witness ==
    /\ dpc = "done"
    /\ Len(EditorCalls) >= 2
    /\ Len(EditorCalls) = Len(unused)
    /\ EditorCalls[1].outcome = "exit_failure"
    /\ EditorCalls[2].outcome = "success"

\* C8: a manifest that cannot be parsed yields a report with success = FALSE,
\* no dependency and an error message, not an Err of clean_dependencies.
C8_ParseFailureReported ==
    (manifest.state = "malformed" /\ dpc \in {"done", "error"}) =>
        /\ dpc = "done"
        /\ report.success = FALSE
        /\ report.unused_deps = <<>>
        /\ report.removed_count = 0
        /\ report.error # NoError

\* C9: when the probe of the editor fails to launch or exits non-zero, no
\* per-dependency invocation is made, and the report has removed_count 0,
\* success = FALSE, the one error of the probe and the unused list as found.
C9_EditorUnavailable ==
    ProbeFailed =>
        /\ EditorCalls = <<>>
        /\ Len(ProbeCalls) = 1
        /\ dpc = "done"
        /\ report.removed_count = 0
        /\ report.success = FALSE
        /\ report.error = "cargo-remove is not installed"
        /\ report.unused_deps = check_unused_dependencies.value
        /\ report.unused_deps # <<>>

\* The probe exited non-zero with two dependencies to remove.
C9_Witness ==
    /\ ProbeFailed
    /\ ProbeCalls[1].outcome = "exit_failure"
    /\ Len(report.unused_deps) >= 2

\* clean_project returned Err for task p: the cleaner failed and the target
\* directory, still there, could not be removed.
CleanFailed(p) ==
    ~dry_run /\ cleanout[p] # "success" /\ target[p].exists

\* C7: every project has exactly one result entry, in its place, also when
\* its task failed; a result depends on its own task only; the batch is never
\* ended by a task; and cleaned + failed = total_projects = the number of
\* entries.
C7_EveryPackageReported ==
    /\ mpc # "error"
    /\ (mpc = "done" /\ projects # <<>>) =>
          /\ summary.printed
          /\ \A p \in Tasks : cpc[p] = "done"
          /\ summary.total_projects = Len(projects)
          /\ Len(summary.results) = Len(projects)
          /\ summary.cleaned + summary.failed = summary.total_projects
          /\ summary.failed = Cardinality({p \in Tasks : CleanFailed(p)})
          /\ \A p \in Tasks :
                LET r == summary.results[p]
                IN  /\ r.path = projects[p].path
                    /\ r.success = ~CleanFailed(p)
                    /\ IF CleanFailed(p)
                       THEN r.error # NoError /\ r.freed_bytes = 0
                       ELSE /\ r.error = NoError
                            /\ r.freed_bytes <= MeasuredSize(target0[p])

\* A task failed, a sibling that completed after it succeeded and freed bytes,
\* and the summary holds both.
C7_Witness ==
    /\ mpc = "done"
    /\ Len(finished) >= 2
    /\ ~summary.results[finished[1]].success
    /\ summary.results[finished[2]].success
    /\ summary.results[finished[2]].freed_bytes > 0

\* A directory below the root whose own name an exclude pattern matches.
NameExcluded(d) ==
    /\ IsStrictAncestor(root, d)
    /\ \E i \in DOMAIN exclude_patterns :
          GlobMatches(exclude_patterns[i], file_name(d))

\* C11: no manifest is discovered in or beneath a subdirectory of the root
\* whose name an exclude pattern matches, at whatever depth the subdirectory
\* sits.
C11_ExcludeByName ==
    \A D \in Candidates :
        \A k \in (Len(root) + 1)..Len(D) : ~NameExcluded(SubSeq(D, 1, k))

(***************************************************************************)
(* The verdicts of check_unused_dependencies, read off the list it         *)
(* returned.                                                               *)
(***************************************************************************)
\* check_unused_dependencies returned Ok for a manifest that parsed.
Checked == dpc \in {"probe", "loop", "done"} /\ manifest.state = "ok"
Declared == {d.name : d \in Range(extract_dependencies(manifest))}
ReportedUnused == {unused[i].name : i \in DOMAIN unused}

\* The texts the scan reads: the readable .rs files of the three directories
\* and build.rs.
ScannedTexts ==
    {f.content : f \in {g \in sources.src.files \cup sources.examples.files
                                 \cup sources.tests.files : g.rs /\ g.utf8}}
        \cup (IF sources.build_rs.exists /\ sources.build_rs.utf8
              THEN {sources.build_rs.content} ELSE {})

\* The usage forms around a name written n: qualified path, import, macro
\* invocation, attribute.
UsageForms(n) ==
    { n \o <<":", ":">>,
      <<"u", "s", "e", " ">> \o n \o <<":", ":">>,
      <<"u", "s", "e", " ", "c", "r", "a", "t", "e", ":", ":">> \o n,
      <<"u", "s", "e", " ">> \o n \o <<";">>,
      <<"e", "x", "t", "e", "r", "n", " ", "c", "r", "a", "t", "e", " ">> \o n,
      n \o <<"!">>,
      <<"#", "[">> \o n }
ReferencedAs(n) ==
    \E t \in ScannedTexts : \E u \in UsageForms(n) : contains(t, u)

\* C12: a declared dependency that a scanned source file references in a
\* usage pattern, written in its normalized form or in its original form, is
\* not reported unused.
C12_EitherFormUsed ==
    Checked =>
        \A d \in Declared :
            (ReferencedAs(normalize_crate_name(d)) \/ ReferencedAs(d))
                => d \notin ReportedUnused

\* The names the claim calls allow-listed: the fixed list, and the names that
\* carry a macro-role mark (a derive suffix, proc-macro).
AllowListed(n) ==
    \/ n \in skip_list
    \/ ends_with(n, <<"_", "d", "e", "r", "i", "v", "e">>)
    \/ ends_with(n, <<"-", "d", "e", "r", "i", "v", "e">>)
    \/ contains(n, <<"p", "r", "o", "c", "-", "m", "a", "c", "r", "o">>)

\* C13: an allow-listed dependency is never reported unused, whatever the
\* sources and the manifest hold, and no `cargo remove` is ever launched for
\* it; the verdict is per dependency, so others of the same manifest may be
\* reported and removed.
C13_AllowListedNeverUnused ==
    /\ Checked => \A d \in Declared : AllowListed(d) => d \notin ReportedUnused
    /\ dpc = "done" =>
          \A i \in DOMAIN report.unused_deps :
              ~AllowListed(report.unused_deps[i].name)
    /\ \A i \in DOMAIN EditorCalls : ~AllowListed(EditorCalls[i].arg)

\* A manifest declaring syn, q-derive and a third dependency, nothing in the
\* sources to scan, and the third dependency removed.
C13_Witness ==
    /\ dpc = "done"
    /\ manifest.state = "ok"
    /\ {sSyn, sQDerive} \subseteq Declared
    /\ ScannedTexts = {}
    /\ report.removed_count >= 1
    /\ \E i \in DOMAIN EditorCalls :
          EditorCalls[i].outcome = "success" /\ EditorCalls[i].arg \in Declared

\* The name, in either spelling, stands in the manifest's text right before
\* '/' or '-'.
ManifestAdjacent(d) ==
    \E n \in {d, normalize_crate_name(d)} : \E sep \in {<<"/">>, <<"-">>} :
        manifest.state = "ok" /\ contains(ManifestText(manifest), n \o sep)

\* A usage pattern for d occurs in src, examples, tests or build.rs.
Referenced(d) == ReferencedAs(normalize_crate_name(d)) \/ ReferencedAs(d)

\* C14: a declared dependency that is not allow-listed is reported unused
\* exactly when no usage pattern for it occurs in the primary-source
\* directory, the examples directory, the tests directory or the build script
\* and its name does not stand in the manifest next to a path-like separator.
C14_UnusedIffUnreferenced ==
    Checked =>
        \A d \in Declared :
            ~AllowListed(d) =>
                (d \in ReportedUnused <=> (~Referenced(d) /\ ~ManifestAdjacent(d)))

\* Ascending in path with no two entries at one path.
StrictlyAscending(ps) ==
    \A i \in 1..(Len(ps) - 1) : PathLess(ps[i].path, ps[i + 1].path)

\* C15: the list returned is in ascending order of path, no two entries share
\* a path, and it is the list another run over the same tree returns, entry
\* for entry (the other run being the walk that lists every directory in
\* ascending order).
C15_SortedAndRepeatable ==
    pc = "done" =>
        /\ StrictlyAscending(projects)
        /\ \A i, j \in DOMAIN projects :
              i # j => projects[i].path # projects[j].path
        /\ projects = SortDedup(PushAll(<<>>, {}, SortedPaths(Candidates)))

\* C16: every path find_cargo_projects registers is the root of the walk or
\* lies beneath it; the climb registers no workspace root above the root.
C16_WithinRoot ==
    \A i \in DOMAIN projects : IsPrefix(root, projects[i].path)

====
